---- MODULE Spec2Model ----
(***************************************************************************)
(* instadev-server: the schema provisioner (src/database.js), the account  *)
(* sync service (src/src/collections/accountService.js) and the HTTP front *)
(* door (src/src/index.js), over a model of the remote platform they call. *)
(* Every await of the code is one step; a remote call either takes effect  *)
(* and resolves, or rejects without effect.                                *)
(***************************************************************************)
EXTENDS Integers, Sequences, FiniteSets, TLC

\* ----------------------------------------------------------------- bounds
\* provisioning runs (boots of the server) in one behaviour
MaxRuns == 2
\* remote calls the platform may reject in one behaviour
MaxFaults == 2
\* accounts the platform holds in the sync specification
MaxAccounts == 3
\* accounts the platform holds in the pagination specification
MaxSource == 250
\* request slots of the HTTP server
MaxReqs == 2
\* length of the account names drawn in the username specification
MaxName == 3
\* accounts that sign up while a run is between two page fetches
MaxShift == 2

\* ------------------------------------------------------ program constants
\* accountService.js:30, the page size of the account listing
limit == 100

VARIABLES
    collections,   \* remote: the database's collections, in creation order
    documents,     \* remote: the stored documents, in creation order
    accounts,      \* remote: the platform's account list, in its total order
    pending,       \* remote calls issued inside a Promise.all and not settled
    faults,        \* how many more remote calls the platform may reject
    prov,          \* the provisioning run of the current boot
    history,       \* outcomes of the provisioning runs that have ended
    ncreate,       \* createCollection calls issued so far, per name
    sync,          \* the sync run of each request slot
    process        \* the server process: its environment and its status

vars == <<collections, documents, accounts, pending, faults, prov, history,
          ncreate, sync, process>>

\* ------------------------------------------------------------ the schema
\* initializeDatabase calls the four collection steps in this order
CollectionNames == <<"users", "posts", "saves", "likes">>

Names == {CollectionNames[i] : i \in DOMAIN CollectionNames}

\* the attributes each collection step creates in its first Promise.all
Attributes(name) ==
    CASE name = "users" -> {"name", "username", "email", "imageUrl",
                            "imageId", "bio", "accountId"}
      [] name = "posts" -> {"content", "tags", "imageUrl", "imageId",
                            "location"}
      [] OTHER -> {}

\* the indexes each collection step creates in its second Promise.all
Indexes(name) ==
    CASE name = "users" -> {"email_index", "username_index", "account_index"}
      [] name = "posts" -> {"tags_index"}
      [] OTHER -> {}

\* the users/posts link of createRelationships
usersPosts ==
    [owner |-> "users", related |-> "posts", key |-> "posts",
     twoWayKey |-> "creator"]

\* the two links of the saves block and of the likes block
userLink(group) ==
    [owner |-> group, related |-> "users", key |-> "user",
     twoWayKey |-> group]

postLink(group) ==
    [owner |-> group, related |-> "posts", key |-> "post",
     twoWayKey |-> IF group = "saves" THEN "savedBy" ELSE "likedBy"]

Links == {usersPosts} \cup {userLink(g) : g \in {"saves", "likes"}}
                      \cup {postLink(g) : g \in {"saves", "likes"}}

\* ------------------------------------------------------ remote platform
\* collections.collections.find(c => c.name === name): the $id (the position
\* in the listing) of the first collection of that name, 0 for undefined
findMutNone(cols, name) == 0

find(cols, name) ==
    IF \E i \in DOMAIN cols : cols[i].name = name
    THEN CHOOSE i \in DOMAIN cols :
             /\ cols[i].name = name
             /\ \A j \in DOMAIN cols : cols[j].name = name => i <= j
    ELSE 0

\* databases.createCollection(databaseId, ID.unique(), name, [])
createCollection(cols, name) ==
    Append(cols, [name |-> name, attributes |-> {}, indexes |-> {}])

\* databases.create*Attribute(databaseId, id, key, ...)
createAttribute(cols, id, key) ==
    [cols EXCEPT ![id].attributes = @ \cup {key}]

\* databases.createIndex(databaseId, id, key, IndexType.Key, [...])
createIndex(cols, id, key) ==
    [cols EXCEPT ![id].indexes = @ \cup {key}]

\* databases.listAttributes(databaseId, id).attributes, as the set of keys
listAttributes(cols, id) == cols[id].attributes

\* the platform refuses a relationship whose key or inverse key is taken
relationshipConflict(cols, from, to, link) ==
    \/ link.key \in cols[from].attributes
    \/ link.twoWayKey \in cols[to].attributes

\* databases.createRelationshipAttribute(databaseId, from, to, ManyToOne,
\* true, key, twoWayKey, SetNull): the key on the owning collection and the
\* inverse key on the related one
createRelationshipAttribute(cols, from, to, link) ==
    [i \in DOMAIN cols |->
        [cols[i] EXCEPT !.attributes =
            @ \cup (IF i = from THEN {link.key} ELSE {})
              \cup (IF i = to THEN {link.twoWayKey} ELSE {})]]

\* ------------------------------------------------- the provisioning run
IdleProv ==
    [pc |-> "idle", run |-> 0, fn |-> 0, coll |-> 0,
     found |-> [n \in Names |-> 0], snapshot |-> {}, group |-> "none",
     calls |-> {}, failed |-> {}, rels |-> {}, relFailed |-> {}]

Ended == {"resolved", "rejected"}

\* a run that ends is entered in the history by the step that ends it
Record ==
    history' = IF prov'.pc \in Ended /\ prov.pc \notin Ended
               THEN Append(history, prov'.pc)
               ELSE history

\* the collection step's catch rethrows and initializeDatabase's catch
\* rethrows: the run rejects
ThrowMutGoOn(p, kind) ==
    [p EXCEPT !.pc = "rel_list", !.fn = 0, !.failed = @ \cup {kind}]

Throw(p, kind) ==
    [p EXCEPT !.pc = "rejected", !.failed = @ \cup {kind}]

\* the collection step returns: the next step, or createRelationships
Return(p) ==
    IF p.fn < Len(CollectionNames)
    THEN [p EXCEPT !.pc = "list", !.fn = @ + 1, !.coll = 0]
    ELSE [p EXCEPT !.pc = "rel_list", !.fn = 0, !.coll = 0]

\* a request slot in which no handler is running
IdleSync ==
    [pc |-> "idle", usersCollection |-> 0, allUsers |-> <<>>, offset |-> 0,
     pages |-> <<>>, i |-> 0, savedAccounts |-> <<>>, errors |-> {},
     created |-> {}, calls |-> {}, response |-> [status |-> 0]]

\* the configuration the process reads from its environment: index.js:16
\* reads the database id, setup.js:8-9 the project id and the secret key;
\* the endpoint is the literal of setup.js:7, whatever the environment holds
Environment ==
    {"APPWRITE_DATABASE_ID", "APPWRITE_ENDPOINT", "APPWRITE_PROJECT_ID",
     "APPWRITE_API_KEY"}

\* a process that is not running yet, with the environment env
Stopped(env) == [env |-> env, status |-> "stopped", exitCode |-> 0]

\* a process that is listening, started with every value configured
Listening == [Stopped(Environment) EXCEPT !.status = "listening"]

\* a client built by setup.js without a project id or without a key: the
\* platform rejects every call of it
Unauthorized ==
    ~({"APPWRITE_PROJECT_ID", "APPWRITE_API_KEY"} \subseteq process.env)

\* index.js boot initializer with the database id missing: console.error and
\* process.exit(1), before anything else of the module runs
Exit ==
    /\ process.status = "stopped"
    /\ "APPWRITE_DATABASE_ID" \notin process.env
    /\ process' = [process EXCEPT !.status = "exited", !.exitCode = 1]
    /\ UNCHANGED <<collections, documents, accounts, pending, faults, prov,
                   history, ncreate, sync>>

\* index.js boot initializer with the database id present: await
\* initializeDatabase(databaseId), and app.listen in the same turn. The
\* server is started again only after the run of the previous boot has ended
\* and the platform has answered every call of it; a started process has no
\* request in flight
Boot ==
    /\ prov.pc \in {"idle"} \cup Ended
    /\ pending = {}
    /\ Len(history) < MaxRuns
    /\ "APPWRITE_DATABASE_ID" \in process.env
    /\ prov' = [IdleProv EXCEPT !.pc = "list", !.run = Len(history) + 1,
                                !.fn = 1]
    /\ sync' = [r \in DOMAIN sync |-> IdleSync]
    /\ process' = [process EXCEPT !.status = "listening"]
    /\ UNCHANGED <<collections, documents, accounts, pending, faults,
                   history, ncreate>>

\* const collections = await databases.listCollections(databaseId); the
\* find; "already exists" returns, otherwise the step goes on to create
ListCollections ==
    /\ prov.pc = "list"
    /\ LET p == [prov EXCEPT !.calls = @ \cup {"listCollections"}]
       IN  \/ /\ ~Unauthorized
              /\ prov' = IF find(collections, CollectionNames[prov.fn]) # 0
                         THEN Return(p)
                         ELSE [p EXCEPT !.pc = "create"]
              /\ UNCHANGED faults
           \/ /\ Unauthorized \/ faults > 0
              /\ faults' = IF Unauthorized THEN faults ELSE faults - 1
              /\ prov' = Throw(p, "listCollections")
    /\ Record
    /\ UNCHANGED <<collections, documents, accounts, pending, ncreate, sync,
                   process>>

\* const collection = await databases.createCollection(...)
CreateCollection ==
    /\ prov.pc = "create"
    /\ LET name == CollectionNames[prov.fn]
           p == [prov EXCEPT !.calls = @ \cup {"createCollection"}]
       IN  /\ ncreate' = [ncreate EXCEPT ![name] = @ + 1]
           /\ \/ /\ collections' = createCollection(collections, name)
                 /\ prov' = [p EXCEPT !.coll = Len(collections) + 1,
                                      !.pc = IF Attributes(name) # {}
                                             THEN "attrs" ELSE "delay"]
                 /\ UNCHANGED faults
              \/ /\ faults > 0
                 /\ faults' = faults - 1
                 /\ prov' = Throw(p, "createCollection")
                 /\ UNCHANGED collections
    /\ Record
    /\ UNCHANGED <<documents, accounts, pending, sync, process>>

\* the calls of a Promise.all([...]) are all issued before the await
Batch(p, kind, keys) ==
    {[run |-> p.run, kind |-> kind, coll |-> p.coll, key |-> k] : k \in keys}

\* await Promise.all([databases.createStringAttribute(...), ...])
IssueAttributes ==
    /\ prov.pc = "attrs"
    /\ pending' = pending \cup
           Batch(prov, "createAttribute", Attributes(CollectionNames[prov.fn]))
    /\ prov' = [prov EXCEPT !.pc = "awaitAttrs",
                            !.calls = @ \cup {"createAttribute"}]
    /\ UNCHANGED <<collections, documents, accounts, faults, history,
                   ncreate, sync, process>>

\* await Promise.all([databases.createIndex(...), ...])
IssueIndexes ==
    /\ prov.pc = "indexes"
    /\ pending' = pending \cup
           Batch(prov, "createIndex", Indexes(CollectionNames[prov.fn]))
    /\ prov' = [prov EXCEPT !.pc = "awaitIndexes",
                            !.calls = @ \cup {"createIndex"}]
    /\ UNCHANGED <<collections, documents, accounts, faults, history,
                   ncreate, sync, process>>

\* the platform carries out one outstanding call and answers it
Settle ==
    \E c \in pending :
        /\ pending' = pending \ {c}
        /\ collections' = IF c.kind = "createAttribute"
                          THEN createAttribute(collections, c.coll, c.key)
                          ELSE createIndex(collections, c.coll, c.key)
        /\ UNCHANGED <<documents, accounts, faults, prov, history, ncreate,
                       sync, process>>

\* the platform rejects one outstanding call: Promise.all rejects with the
\* first rejection while the other calls stay outstanding
Refuse ==
    \E c \in pending :
        /\ faults > 0
        /\ faults' = faults - 1
        /\ pending' = pending \ {c}
        /\ prov' = IF c.run = prov.run
                   THEN IF prov.pc \in {"awaitAttrs", "awaitIndexes"}
                        THEN Throw(prov, c.kind)
                        ELSE [prov EXCEPT !.failed = @ \cup {c.kind}]
                   ELSE prov
        /\ Record
        /\ UNCHANGED <<collections, documents, accounts, ncreate, sync,
                       process>>

Outstanding == {c \in pending : c.run = prov.run}

\* Promise.all resolves once every call of it has resolved
AttributesDoneMutNoWait ==
    /\ prov.pc = "awaitAttrs"
    /\ prov' = [prov EXCEPT !.pc = "delay"]
    /\ UNCHANGED <<collections, documents, accounts, pending, faults,
                   history, ncreate, sync, process>>

AttributesDone ==
    /\ prov.pc = "awaitAttrs"
    /\ Outstanding = {}
    /\ prov' = [prov EXCEPT !.pc = "delay"]
    /\ UNCHANGED <<collections, documents, accounts, pending, faults,
                   history, ncreate, sync, process>>

\* await new Promise((resolve) => setTimeout(resolve, 1000))
Delay ==
    /\ prov.pc = "delay"
    /\ prov' = IF Indexes(CollectionNames[prov.fn]) # {}
               THEN [prov EXCEPT !.pc = "indexes"]
               ELSE Return(prov)
    /\ UNCHANGED <<collections, documents, accounts, pending, faults,
                   history, ncreate, sync, process>>

\* the second Promise.all resolves and the collection step returns
IndexesDone ==
    /\ prov.pc = "awaitIndexes"
    /\ Outstanding = {}
    /\ prov' = Return(prov)
    /\ UNCHANGED <<collections, documents, accounts, pending, faults,
                   history, ncreate, sync, process>>

\* ------------------------------------------------- createRelationships
\* attributes.some((attr) => attr.key === key)
hasMutNever(snapshot, key) == FALSE

has(snapshot, key) == key \in snapshot

\* createRelationships returns and initializeDatabase resolves
Finish(p) ==
    [p EXCEPT !.pc = "resolved", !.snapshot = {}, !.group = "none"]

\* the block after the current one: if (savesCollection) {...}, then
\* if (likesCollection) {...}, then "Finished creating relationships"
NextBlockMutNested(p) ==
    IF p.group = "none" /\ p.found["saves"] # 0
    THEN [p EXCEPT !.pc = "rel_groupAttrs", !.group = "saves",
                   !.snapshot = {}]
    ELSE IF p.group = "saves" /\ p.found["likes"] # 0
    THEN [p EXCEPT !.pc = "rel_groupAttrs", !.group = "likes",
                   !.snapshot = {}]
    ELSE Finish(p)

NextBlock(p) ==
    IF p.group = "none" /\ p.found["saves"] # 0
    THEN [p EXCEPT !.pc = "rel_groupAttrs", !.group = "saves",
                   !.snapshot = {}]
    ELSE IF p.group \in {"none", "saves"} /\ p.found["likes"] # 0
    THEN [p EXCEPT !.pc = "rel_groupAttrs", !.group = "likes",
                   !.snapshot = {}]
    ELSE Finish(p)

\* a listAttributes or createRelationshipAttribute rejection lands in the
\* catch of its own block, which logs it
Caught(p, kind) == [p EXCEPT !.failed = @ \cup {kind}]

\* const collections = await databases.listCollections(databaseId), the four
\* finds and the users/posts guard; a rejection lands in the outer catch,
\* which logs it and returns
RelListCollections ==
    /\ prov.pc = "rel_list"
    /\ LET p == [prov EXCEPT !.calls = @ \cup {"listCollections"}]
           f == [n \in Names |-> find(collections, n)]
       IN  \/ /\ prov' = IF f["users"] = 0 \/ f["posts"] = 0
                         THEN Finish(p)
                         ELSE [p EXCEPT !.pc = "rel_usersAttrs", !.found = f]
              /\ UNCHANGED faults
           \/ /\ faults > 0
              /\ faults' = faults - 1
              /\ prov' = Finish(Caught(p, "listCollections"))
    /\ Record
    /\ UNCHANGED <<collections, documents, accounts, pending, ncreate, sync,
                   process>>

\* const userAttributes = await databases.listAttributes(users) and
\* hasPostsRelationship
RelUsersAttributes ==
    /\ prov.pc = "rel_usersAttrs"
    /\ LET p == [prov EXCEPT !.calls = @ \cup {"listAttributes"}]
           s == listAttributes(collections, prov.found["users"])
       IN  \/ /\ prov' = IF ~has(s, usersPosts.key)
                         THEN [p EXCEPT !.pc = "rel_usersPosts"]
                         ELSE NextBlock(p)
              /\ UNCHANGED faults
           \/ /\ faults > 0
              /\ faults' = faults - 1
              /\ prov' = NextBlock(Caught(p, "listAttributes"))
    /\ Record
    /\ UNCHANGED <<collections, documents, accounts, pending, ncreate, sync,
                   process>>

\* await databases.createRelationshipAttribute(...) for one link: on success
\* the run goes on with ok, on a rejection (the platform's refusal of a taken
\* key included) with the block's catch
CreateRelationship(link, ok, caught) ==
    LET from == prov.found[link.owner]
        to == prov.found[link.related]
        refused == relationshipConflict(collections, from, to, link)
        mark(p) == [p EXCEPT !.calls = @ \cup {"createRelationship"},
                             !.rels = @ \cup {link}]
    IN  \/ /\ ~refused
           /\ collections' = createRelationshipAttribute(collections, from,
                                                         to, link)
           /\ prov' = mark(ok)
           /\ UNCHANGED faults
        \/ /\ refused \/ faults > 0
           /\ faults' = IF refused THEN faults ELSE faults - 1
           /\ prov' = [mark(Caught(caught, "createRelationship"))
                          EXCEPT !.relFailed = @ \cup {link}]
           /\ UNCHANGED collections

\* if (!hasPostsRelationship) await createRelationshipAttribute(users, posts,
\* ..., "posts", "creator", SetNull)
RelUsersPosts ==
    /\ prov.pc = "rel_usersPosts"
    /\ CreateRelationship(usersPosts, NextBlock(prov), NextBlock(prov))
    /\ Record
    /\ UNCHANGED <<documents, accounts, pending, ncreate, sync, process>>

\* const savesAttributes = await databases.listAttributes(saves) (likes in
\* the likes block) and hasUserRelationship
RelGroupAttributes ==
    /\ prov.pc = "rel_groupAttrs"
    /\ LET p == [prov EXCEPT !.calls = @ \cup {"listAttributes"}]
           s == listAttributes(collections, prov.found[prov.group])
       IN  \/ /\ prov' = IF ~has(s, "user")
                         THEN [p EXCEPT !.pc = "rel_groupUser",
                                        !.snapshot = s]
                         ELSE IF ~has(s, "post")
                         THEN [p EXCEPT !.pc = "rel_groupPost",
                                        !.snapshot = s]
                         ELSE NextBlock(p)
              /\ UNCHANGED faults
           \/ /\ faults > 0
              /\ faults' = faults - 1
              /\ prov' = NextBlock(Caught(p, "listAttributes"))
    /\ Record
    /\ UNCHANGED <<collections, documents, accounts, pending, ncreate, sync,
                   process>>

\* if (!hasUserRelationship) await createRelationshipAttribute(..., "user",
\* ...); then hasPostRelationship, read from the same listing. A rejection
\* leaves the try block, the "post" link with it
RelGroupUser ==
    /\ prov.pc = "rel_groupUser"
    /\ CreateRelationship(userLink(prov.group),
                          IF ~has(prov.snapshot, "post")
                          THEN [prov EXCEPT !.pc = "rel_groupPost"]
                          ELSE NextBlock(prov),
                          NextBlock(prov))
    /\ Record
    /\ UNCHANGED <<documents, accounts, pending, ncreate, sync, process>>

\* if (!hasPostRelationship) await createRelationshipAttribute(..., "post",
\* ...)
RelGroupPost ==
    /\ prov.pc = "rel_groupPost"
    /\ CreateRelationship(postLink(prov.group), NextBlock(prov),
                          NextBlock(prov))
    /\ Record
    /\ UNCHANGED <<documents, accounts, pending, ncreate, sync, process>>

\* ------------------------------------------------------- the accounts
Min(a, b) == IF a < b THEN a ELSE b

UpperCase == <<"A", "B", "C", "D", "E", "F", "G", "H", "I", "J", "K", "L", "M",
               "N", "O", "P", "Q", "R", "S", "T", "U", "V", "W", "X", "Y", "Z">>

LowerCase == <<"a", "b", "c", "d", "e", "f", "g", "h", "i", "j", "k", "l", "m",
               "n", "o", "p", "q", "r", "s", "t", "u", "v", "w", "x", "y", "z">>

\* the characters the regular expression class \s matches, of those in use
Whitespace == {" ", "\t", "\n"}

\* String.prototype.toLowerCase, a string being the sequence of its characters
toLowerCase(str) ==
    [k \in DOMAIN str |->
        IF \E u \in DOMAIN UpperCase : UpperCase[u] = str[k]
        THEN LowerCase[CHOOSE u \in DOMAIN UpperCase : UpperCase[u] = str[k]]
        ELSE str[k]]

RECURSIVE skipWhitespace(_)
skipWhitespace(str) ==
    IF str # <<>> /\ Head(str) \in Whitespace
    THEN skipWhitespace(Tail(str))
    ELSE str

\* str.replace(/\s+/g, "_"): every maximal run of whitespace becomes one "_"
replaceWhitespaceMutEach(str) ==
    [k \in DOMAIN str |-> IF str[k] \in Whitespace THEN "_" ELSE str[k]]

RECURSIVE replaceWhitespace(_)
replaceWhitespace(str) ==
    IF str = <<>> THEN <<>>
    ELSE IF Head(str) \in Whitespace
    THEN <<"_">> \o replaceWhitespace(skipWhitespace(str))
    ELSE <<Head(str)>> \o replaceWhitespace(Tail(str))

\* str.substring(0, n)
substring(str, n) == SubSeq(str, 1, Min(n, Len(str)))

\* the value of an absent bio
null == "null"

\* the userData literal: name, username, email, imageUrl, bio, accountId
userData(acc) ==
    [name |-> IF acc.name # <<>> THEN acc.name ELSE <<"U", "s", "e", "r">>,
     username |-> IF acc.name # <<>>
                  THEN replaceWhitespace(toLowerCase(acc.name))
                  ELSE <<"u", "s", "e", "r", "_">> \o substring(acc.id, 8),
     email |-> acc.email,
     imageUrl |-> IF acc.prefs.avatar # <<>>
                  THEN acc.prefs.avatar
                  ELSE <<"https://api.dicebear.com/7.x/avataaars/svg?seed=">>
                           \o acc.id,
     bio |-> IF acc.prefs.bio # "" THEN acc.prefs.bio ELSE null,
     accountId |-> acc.id]

\* databases.listDocuments(databaseId, id, [Query.equal("accountId", value)])
listDocumentsMutAll(docs, id, value) ==
    SelectSeq(docs, LAMBDA d : d.collection = id)

listDocumentsMutName(docs, id, value) ==
    SelectSeq(docs, LAMBDA d : d.collection = id /\ d.data.name = value)

listDocuments(docs, id, value) ==
    SelectSeq(docs, LAMBDA d : d.collection = id /\ d.data.accountId = value)

\* the platform checks a query and a document against the collection's
\* schema: it rejects a key the collection has no attribute for
unknownAttribute(cols, id, keys) == ~(keys \subseteq cols[id].attributes)

\* databases.createDocument(databaseId, id, ID.unique(), data)
createDocument(docs, id, data) ==
    Append(docs, [collection |-> id, data |-> data])

\* users.list([Query.limit(n), Query.offset(from)]).users
listAccountsMutShort(accs, n, from) ==
    SubSeq(accs, from + 1, Min(from + n - 1, Len(accs)))

listAccounts(accs, n, from) ==
    SubSeq(accs, from + 1, Min(from + n, Len(accs)))

RECURSIVE Digits(_)
Digits(n) ==
    LET d == <<"0", "1", "2", "3", "4", "5", "6", "7", "8", "9">>
    IN  IF n < 10 THEN <<d[n + 1]>>
        ELSE Digits(n \div 10) \o <<d[(n % 10) + 1]>>

\* the platform's identifier of its k-th account
AccountId(k) == Digits(k) \o <<"f", "0", "0", "d", "c", "a", "f", "e">>

\* an account without a name, an email or preferences, and one with all three
Shapes ==
    {[name |-> <<>>, email |-> "", prefs |-> [avatar |-> <<>>, bio |-> ""]],
     [name |-> <<"J", "o", " ", "\t", "D">>, email |-> "jo@example.com",
      prefs |-> [avatar |-> <<"https://cdn.example.com/jo.png">>,
                 bio |-> "hello"]]}

Account(k, shape) ==
    [id |-> AccountId(k), name |-> shape.name, email |-> shape.email,
     prefs |-> shape.prefs]

\* --------------------------------------------------------- the sync run
Slots == 1 .. MaxReqs

Free(r) == sync[r].pc \in {"idle", "done"}

\* the outer catch of fetchAndSaveAccounts logs and rethrows
Reject(s) == [s EXCEPT !.pc = "rejected"]

\* the next account of the for-of loop, or return savedAccounts after the last
Advance(s) ==
    IF s.i < Len(s.allUsers)
    THEN [s EXCEPT !.pc = "lookup", !.i = @ + 1]
    ELSE [s EXCEPT !.pc = "resolved"]

\* the catch inside the loop logs the account's error; the loop goes on
CatchMutRethrow(s) == Reject([s EXCEPT !.errors = @ \cup {s.i}])

Catch(s) == Advance([s EXCEPT !.errors = @ \cup {s.i}])

\* usersCollection = collections.collections.find(...) and
\* if (!usersCollection) throw new Error("Users collection not found")
ResolveMutNoThrow(s, u) == [s EXCEPT !.pc = "list", !.usersCollection = u]

Resolve(s, u) ==
    IF u = 0 THEN Reject(s)
    ELSE [s EXCEPT !.pc = "list", !.usersCollection = u]

\* if (existingUsers.total > 0) { savedAccounts.push(existingUsers
\* .documents[0]); continue; }, otherwise on to the creation
FoundMutNoContinue(s, existingUsers) == [s EXCEPT !.pc = "create"]

Found(s, existingUsers) ==
    IF Len(existingUsers) > 0
    THEN Advance([s EXCEPT !.savedAccounts = Append(@, existingUsers[1])])
    ELSE [s EXCEPT !.pc = "create"]

\* app.get("/accounts/sync", ...): a request arrives and the handler calls
\* fetchAndSaveAccounts(databaseId)
Request(r) ==
    /\ process.status = "listening"
    /\ Free(r)
    /\ sync' = [sync EXCEPT ![r] = [IdleSync EXCEPT !.pc = "listCollections"]]
    /\ UNCHANGED <<collections, documents, accounts, pending, faults, prov,
                   history, ncreate, process>>

\* const collections = await databases.listCollections(databaseId), the find
\* of "users" and the throw of "Users collection not found"
SyncListCollections(r) ==
    /\ sync[r].pc = "listCollections"
    /\ LET s == [sync[r] EXCEPT !.calls = @ \cup {"listCollections"}]
           u == find(collections, "users")
       IN  \/ /\ ~Unauthorized
              /\ sync' = [sync EXCEPT ![r] = Resolve(s, u)]
              /\ UNCHANGED faults
           \/ /\ Unauthorized \/ faults > 0
              /\ faults' = IF Unauthorized THEN faults ELSE faults - 1
              /\ sync' = [sync EXCEPT ![r] = Reject(s)]
    /\ UNCHANGED <<collections, documents, accounts, pending, prov, history,
                   ncreate, process>>

\* one turn of the while loop: await users.list(queries), the spread into
\* allUsers and the test of the page's length
SyncListAccounts(r) ==
    /\ sync[r].pc = "list"
    /\ LET s == [sync[r] EXCEPT !.calls = @ \cup {"listAccounts"}]
           page == listAccounts(accounts, limit, s.offset)
           t == [s EXCEPT !.allUsers = @ \o page,
                          !.pages = Append(@, [offset |-> s.offset,
                                               limit |-> limit,
                                               length |-> Len(page)])]
       IN  \/ /\ sync' = [sync EXCEPT ![r] =
                            IF Len(page) < limit
                            THEN Advance(t)
                            ELSE [t EXCEPT !.offset = @ + limit]]
              /\ UNCHANGED faults
           \/ /\ faults > 0
              /\ faults' = faults - 1
              /\ sync' = [sync EXCEPT ![r] = Reject(s)]
    /\ UNCHANGED <<collections, documents, accounts, pending, prov, history,
                   ncreate, process>>

\* const existingUsers = await databases.listDocuments(...); an existing
\* profile is pushed and the loop continues
SyncLookup(r) ==
    /\ sync[r].pc = "lookup"
    /\ LET s == [sync[r] EXCEPT !.calls = @ \cup {"listDocuments"}]
           existingUsers == listDocuments(documents, s.usersCollection,
                                          s.allUsers[s.i].id)
           refused == unknownAttribute(collections, s.usersCollection,
                                       {"accountId"})
       IN  \/ /\ ~refused
              /\ sync' = [sync EXCEPT ![r] = Found(s, existingUsers)]
              /\ UNCHANGED faults
           \/ /\ refused \/ faults > 0
              /\ faults' = IF refused THEN faults ELSE faults - 1
              /\ sync' = [sync EXCEPT ![r] = Catch(s)]
    /\ UNCHANGED <<collections, documents, accounts, pending, prov, history,
                   ncreate, process>>

\* const newUser = await databases.createDocument(..., userData) and the push
SyncCreate(r) ==
    /\ sync[r].pc = "create"
    /\ LET s == [sync[r] EXCEPT !.calls = @ \cup {"createDocument"},
                                !.created = @ \cup {sync[r].i}]
           docs == createDocument(documents, s.usersCollection,
                                  userData(s.allUsers[s.i]))
           refused == unknownAttribute(collections, s.usersCollection,
                                       DOMAIN userData(s.allUsers[s.i]))
       IN  \/ /\ ~refused
              /\ documents' = docs
              /\ sync' = [sync EXCEPT ![r] =
                            Advance([s EXCEPT !.savedAccounts =
                                        Append(@, docs[Len(docs)])])]
              /\ UNCHANGED faults
           \/ /\ refused \/ faults > 0
              /\ faults' = IF refused THEN faults ELSE faults - 1
              /\ sync' = [sync EXCEPT ![r] = Catch(s)]
              /\ UNCHANGED documents
    /\ UNCHANGED <<collections, accounts, pending, prov, history, ncreate,
                   process>>

\* the handler's continuation: res.json({success: true, ...}) with status 200,
\* or the catch's res.status(500).json({success: false, ...}); the locals of
\* the call are gone, the response is what is left of the request
RespondMutSurface(r) ==
    /\ sync[r].pc \in {"resolved", "rejected"}
    /\ sync' = [sync EXCEPT ![r] =
                  [IdleSync EXCEPT !.pc = "done",
                                   !.response =
                                IF sync[r].pc = "resolved"
                                       /\ sync[r].errors = {}
                                THEN [status |-> 200, success |-> TRUE,
                                      count |-> Len(sync[r].savedAccounts),
                                      data |-> sync[r].savedAccounts]
                                ELSE [status |-> 500, success |-> FALSE]]]
    /\ UNCHANGED <<collections, documents, accounts, pending, faults, prov,
                   history, ncreate, process>>

Respond(r) ==
    /\ sync[r].pc \in {"resolved", "rejected"}
    /\ sync' = [sync EXCEPT ![r] =
                  [IdleSync EXCEPT !.pc = "done",
                                   !.response =
                                IF sync[r].pc = "resolved"
                                THEN [status |-> 200, success |-> TRUE,
                                      count |-> Len(sync[r].savedAccounts),
                                      data |-> sync[r].savedAccounts]
                                ELSE [status |-> 500, success |-> FALSE]]]
    /\ UNCHANGED <<collections, documents, accounts, pending, faults, prov,
                   history, ncreate, process>>

\* ------------------------------------------------------ the environment
\* The account source changes between the runs: a run reads it in its listing
\* and works on that copy from then on.
\* a new account signs up on the platform
Register ==
    /\ \A r \in Slots : Free(r)
    /\ Len(accounts) < MaxAccounts
    /\ \E shape \in Shapes :
           accounts' = Append(accounts, Account(Len(accounts) + 1, shape))
    /\ UNCHANGED <<collections, documents, pending, faults, prov, history,
                   ncreate, sync, process>>

\* an account changes its name, email and preferences on the platform
Edit ==
    /\ \A r \in Slots : Free(r)
    /\ \E k \in DOMAIN accounts, shape \in Shapes :
           /\ accounts[k] # Account(k, shape)
           /\ accounts' = [accounts EXCEPT ![k] = Account(k, shape)]
    /\ UNCHANGED <<collections, documents, pending, faults, prov, history,
                   ncreate, sync, process>>

\* requests that arrive one after another: each is handled, and answered,
\* before the next arrives
RequestInTurn ==
    /\ \A r \in Slots : Free(r)
    /\ Request(1)

\* ------------------------------------------------------ specifications
\* a fresh database, before the first boot
Init ==
    /\ collections = <<>>
    /\ documents = <<>>
    /\ accounts = <<>>
    /\ pending = {}
    /\ faults = MaxFaults
    /\ prov = IdleProv
    /\ history = <<>>
    /\ ncreate = [n \in Names |-> 0]
    /\ sync = [r \in Slots |-> IdleSync]
    /\ process = Stopped(Environment)

\* the provisioner: boots of the server against one database
NextProv ==
    \/ Boot
    \/ ListCollections
    \/ CreateCollection
    \/ IssueAttributes
    \/ Settle
    \/ Refuse
    \/ AttributesDone
    \/ Delay
    \/ IssueIndexes
    \/ IndexesDone
    \/ RelListCollections
    \/ RelUsersAttributes
    \/ RelUsersPosts
    \/ RelGroupAttributes
    \/ RelGroupUser
    \/ RelGroupPost

SpecProv == Init /\ [][NextProv]_vars

\* the keys the relationship pass adds to a collection
RelationshipKeys(name) ==
    {l.key : l \in {x \in Links : x.owner = name}}
        \cup {l.twoWayKey : l \in {x \in Links : x.related = name}}

\* the schema a provisioning run without a rejection leaves
Provisioned ==
    [k \in DOMAIN CollectionNames |->
        [name |-> CollectionNames[k],
         attributes |-> Attributes(CollectionNames[k])
                            \cup RelationshipKeys(CollectionNames[k]),
         indexes |-> Indexes(CollectionNames[k])]]

\* the sync service, against a database that is fresh or provisioned
InitSync ==
    /\ collections \in {<<>>, Provisioned}
    /\ documents = <<>>
    /\ accounts = <<>>
    /\ pending = {}
    /\ faults = MaxFaults
    /\ prov = IdleProv
    /\ history = <<>>
    /\ ncreate = [n \in Names |-> 0]
    /\ sync = [r \in Slots |-> IdleSync]
    /\ process = Listening

SyncStep(r) ==
    \/ SyncListCollections(r)
    \/ SyncListAccounts(r)
    \/ SyncLookup(r)
    \/ SyncCreate(r)
    \/ Respond(r)

NextSync ==
    \/ Register
    \/ Edit
    \/ RequestInTurn
    \/ \E r \in Slots : SyncStep(r)

SpecSync == InitSync /\ [][NextSync]_vars

\* the server from its start: a process with any part of its configuration,
\* a fresh database and one account on the platform. Requests arrive in turn
\* once the provisioning run of the boot has ended
InitBoot ==
    /\ collections = <<>>
    /\ documents = <<>>
    /\ accounts = <<Account(1, CHOOSE x \in Shapes : x.name # <<>>)>>
    /\ pending = {}
    /\ faults = MaxFaults
    /\ prov = IdleProv
    /\ history = <<>>
    /\ ncreate = [n \in Names |-> 0]
    /\ sync = [r \in Slots |-> IdleSync]
    /\ \E env \in SUBSET Environment : process = Stopped(env)

RequestAfterBoot ==
    /\ prov.pc \in Ended
    /\ RequestInTurn

NextBoot ==
    \/ Exit
    \/ NextProv
    \/ RequestAfterBoot
    \/ \E r \in Slots : SyncStep(r)

SpecBoot == InitBoot /\ [][NextBoot]_vars

\* the server: the boot's provisioning run and the requests it serves. Its
\* state space is the product of the two; the properties below are stated
\* under the specifications of the parts
Next == NextProv \/ NextSync

Spec == Init /\ [][Next]_vars

\* the pagination: one sync over a source of any size up to MaxSource, on a
\* platform that rejects no call
InitPage ==
    /\ collections = Provisioned
    /\ documents = <<>>
    /\ \E n \in 0 .. MaxSource :
           accounts = [k \in 1 .. n |->
                          Account(k, CHOOSE x \in Shapes : x.name = <<>>)]
    /\ pending = {}
    /\ faults = 0
    /\ prov = IdleProv
    /\ history = <<>>
    /\ ncreate = [n \in Names |-> 0]
    /\ sync = [r \in Slots |-> IdleSync]
    /\ process = Listening

FirstRequest ==
    /\ \A r \in Slots : sync[r].pc = "idle"
    /\ Request(1)

NextPage ==
    \/ FirstRequest
    \/ \E r \in Slots : SyncStep(r)

SpecPage == InitPage /\ [][NextPage]_vars

\* the sequences over a set of characters, up to a length
RECURSIVE Strings(_, _)
Strings(chars, n) ==
    IF n = 0 THEN {<<>>}
    ELSE LET shorter == Strings(chars, n - 1)
         IN  shorter \cup {Append(str, c) : str \in shorter, c \in chars}

\* acc.name as the platform may hold it: absent, "Jane Doe", or any short
\* string of capitals, small letters, blanks and tabs
NameInputs ==
    {<<"J", "a", "n", "e", " ", "D", "o", "e">>}
        \cup Strings({"J", "e", " ", "\t"}, MaxName)

\* acc.$id: "abcdefgh1234", an identifier of eight characters, a shorter one
IdInputs ==
    {<<"a", "b", "c", "d", "e", "f", "g", "h", "1", "2", "3", "4">>,
     <<"a", "b", "c", "d", "e", "f", "g", "h">>,
     <<"a", "b", "c">>}

\* the derivation of the profile: one account with a drawn name and id on a
\* provisioned database, synced once
InitName ==
    /\ collections = Provisioned
    /\ documents = <<>>
    /\ \E n \in NameInputs, id \in IdInputs :
           accounts = <<[id |-> id, name |-> n, email |-> "",
                         prefs |-> [avatar |-> <<>>, bio |-> ""]]>>
    /\ pending = {}
    /\ faults = 0
    /\ prov = IdleProv
    /\ history = <<>>
    /\ ncreate = [n \in Names |-> 0]
    /\ sync = [r \in Slots |-> IdleSync]
    /\ process = Listening

SpecName == InitName /\ [][NextPage]_vars

\* the collections of a set of names as the collection steps make them, in
\* the order of the steps and without a relationship attribute
Schema(present) ==
    LET names == SelectSeq(CollectionNames, LAMBDA n : n \in present)
    IN  [k \in DOMAIN names |->
            [name |-> names[k], attributes |-> Attributes(names[k]),
             indexes |-> Indexes(names[k])]]

\* createRelationships called on its own, on a database that has any part of
\* the four collections
InitRel ==
    /\ \E present \in SUBSET Names : collections = Schema(present)
    /\ documents = <<>>
    /\ accounts = <<>>
    /\ pending = {}
    /\ faults = MaxFaults
    /\ prov = [IdleProv EXCEPT !.pc = "rel_list", !.run = 1]
    /\ history = <<>>
    /\ ncreate = [n \in Names |-> 0]
    /\ sync = [r \in Slots |-> IdleSync]
    /\ process = Stopped(Environment)

NextRel ==
    \/ RelListCollections
    \/ RelUsersAttributes
    \/ RelUsersPosts
    \/ RelGroupAttributes
    \/ RelGroupUser
    \/ RelGroupPost

SpecRel == InitRel /\ [][NextRel]_vars

\* overlapping requests: every slot takes one request, at any time, and the
\* handlers run interleaved at their awaits, over two accounts on a
\* provisioned database
InitOverlap ==
    /\ collections = Provisioned
    /\ documents = <<>>
    /\ accounts = [k \in 1 .. 2 |->
                      Account(k, CHOOSE x \in Shapes : x.name # <<>>)]
    /\ pending = {}
    /\ faults = MaxFaults
    /\ prov = IdleProv
    /\ history = <<>>
    /\ ncreate = [n \in Names |-> 0]
    /\ sync = [r \in Slots |-> IdleSync]
    /\ process = Listening

Arrive(r) ==
    /\ sync[r].pc = "idle"
    /\ Request(r)

NextOverlap ==
    \/ \E r \in Slots : Arrive(r)
    \/ \E r \in Slots : SyncStep(r)

SpecOverlap == InitOverlap /\ [][NextOverlap]_vars

\* a listing that shifts under a run: the platform holds one full page of
\* accounts, and while the run is between two page fetches new accounts sign
\* up and come first in the platform's order, so the accounts at the end of
\* the page just read are the first of the next page too
InitShift ==
    /\ collections = Provisioned
    /\ documents = <<>>
    /\ accounts = [k \in 1 .. limit |->
                      Account(k, CHOOSE x \in Shapes : x.name = <<>>)]
    /\ pending = {}
    /\ faults = 1
    /\ prov = IdleProv
    /\ history = <<>>
    /\ ncreate = [n \in Names |-> 0]
    /\ sync = [r \in Slots |-> IdleSync]
    /\ process = Listening

Shift ==
    /\ \E r \in Slots : sync[r].pc = "list" /\ sync[r].offset > 0
    /\ Len(accounts) < limit + MaxShift
    /\ accounts' = <<Account(Len(accounts) + 1,
                             CHOOSE x \in Shapes : x.name = <<>>)>>
                       \o accounts
    /\ UNCHANGED <<collections, documents, pending, faults, prov, history,
                   ncreate, sync, process>>

NextShift ==
    \/ FirstRequest
    \/ Shift
    \/ \E r \in Slots : SyncStep(r)

SpecShift == InitShift /\ [][NextShift]_vars

\* ---------------------------------------------------------- properties
\* the stored profile documents of an account identifier
ProfilesOf(id) ==
    {k \in DOMAIN documents :
        /\ documents[k].collection = find(collections, "users")
        /\ documents[k].data.accountId = id}

Stored == {documents[k] : k \in DOMAIN documents}

\* the positions of allUsers for which a step of slot r issues createDocument
IssuesCreate(r) == sync'[r].created \ sync[r].created

\* C1: over sync runs made one after another, the users collection never
\* holds two profile documents of one accountId, and createDocument is issued
\* only for an account that has no stored profile, so that a run over
\* accounts that all have one issues none.
C1_OneProfilePerAccount ==
    /\ [](\A a, b \in DOMAIN documents :
             /\ documents[a].collection = documents[b].collection
             /\ documents[a].data.accountId = documents[b].data.accountId
             => a = b)
    /\ [][\A r \in Slots : \A k \in IssuesCreate(r) :
             ProfilesOf(sync[r].allUsers[k].id) = {}]_vars

\* a run over two or more accounts that found a profile for each of them and
\* issued no createDocument
C1_Witness ==
    \E r \in Slots :
        /\ sync[r].pc = "resolved"
        /\ Len(sync[r].allUsers) >= 2
        /\ sync[r].created = {}
        /\ sync[r].errors = {}
        /\ \A k \in DOMAIN sync[r].allUsers :
               Cardinality(ProfilesOf(sync[r].allUsers[k].id)) = 1

CollectionsNamed(n) == {k \in DOMAIN collections : collections[k].name = n}

Creating == {"createCollection", "createAttribute", "createIndex"}

\* C2: no name ever has two collections; once the first provisioning run on
\* a fresh database has resolved, each of the four names has exactly one
\* collection and createCollection has been issued exactly once for it, and
\* a run that follows a resolved run issues no createCollection,
\* createAttribute or createIndex.
C2_ProvisionerIdempotent ==
    /\ \A n \in Names : Cardinality(CollectionsNamed(n)) <= 1
    /\ (history # <<>> /\ history[1] = "resolved") =>
           \A n \in Names :
               Cardinality(CollectionsNamed(n)) = 1 /\ ncreate[n] = 1
    /\ (\E k \in DOMAIN history : k < prov.run /\ history[k] = "resolved")
           => prov.calls \cap Creating = {}

\* the second of two runs that both resolved
C2_Witness ==
    /\ prov.run = 2
    /\ prov.pc = "resolved"
    /\ history = <<"resolved", "resolved">>
    /\ "listAttributes" \in prov.calls

OwnerAttributes(link) ==
    collections[find(collections, link.owner)].attributes

\* C3: a createRelationship call for a link is issued only in a state in
\* which the owning collection has no attribute of the link's field name; a
\* run that finds "posts" on "users" issues none for users/posts.
C3_RelationshipOnlyIfAbsent ==
    [][\A l \in Links :
          (l \in prov'.rels /\ l \notin prov.rels) =>
              l.key \notin OwnerAttributes(l)]_vars

\* a second run that found "posts" on "users", left that link alone and
\* issued the call for another link
C3_Witness ==
    /\ prov.run = 2
    /\ prov.pc = "resolved"
    /\ "posts" \in OwnerAttributes(usersPosts)
    /\ usersPosts \notin prov.rels
    /\ prov.rels # {}
    /\ prov.failed = {}

\* C4: an account whose lookup or creation throws is counted and passed
\* over: inside the loop every account before the current one is either in
\* the result or in the errors, no per-account error rejects the run, and the
\* resolved run returns n - k profiles for n accounts and k errors.
C4_PartialFailureIsolated ==
    \A r \in Slots :
        LET s == sync[r]
        IN  /\ s.pc \in {"lookup", "create"} =>
                   Len(s.savedAccounts) + Cardinality(s.errors) = s.i - 1
            /\ s.pc = "rejected" => s.errors = {}
            /\ s.pc = "resolved" =>
                   /\ s.i = Len(s.allUsers)
                   /\ s.errors \subseteq DOMAIN s.allUsers
                   /\ Len(s.savedAccounts) =
                          Len(s.allUsers) - Cardinality(s.errors)

\* a resolved run over three accounts whose second account threw: the third
\* was still processed and two profiles are returned
C4_Witness ==
    \E r \in Slots :
        /\ sync[r].pc = "resolved"
        /\ Len(sync[r].allUsers) = 3
        /\ sync[r].errors = {2}
        /\ Len(sync[r].savedAccounts) = 2
        /\ sync[r].savedAccounts[2].data.accountId = sync[r].allUsers[3].id

\* the lengths of the pages a run has fetched
PageLengths(s) == [k \in DOMAIN s.pages |-> s.pages[k].length]

\* C5: over an unchanging source of N accounts the k-th page is requested at
\* offset 100 (k - 1) with limit 100 and holds the accounts from there on, at
\* most 100; a further page is requested only after a full one; the loop
\* ends with the first page shorter than 100, with allUsers equal to the
\* source; N = 250 gives the three pages 100, 100, 50.
C5_Pagination ==
    \A r \in Slots :
        LET s == sync[r]
            N == Len(accounts)
        IN  /\ \A k \in DOMAIN s.pages :
                   /\ s.pages[k].offset = 100 * (k - 1)
                   /\ s.pages[k].limit = 100
                   /\ s.pages[k].length = Min(100, N - 100 * (k - 1))
                   /\ k < Len(s.pages) => s.pages[k].length = 100
            /\ s.pc = "list" =>
                   /\ s.offset = 100 * Len(s.pages)
                   /\ s.allUsers = SubSeq(accounts, 1, s.offset)
            /\ s.pc \in {"lookup", "create", "resolved"} =>
                   /\ s.allUsers = accounts
                   /\ Len(s.pages) = (N \div 100) + 1
                   /\ s.pages[Len(s.pages)].length < 100
                   /\ N = 250 => PageLengths(s) = <<100, 100, 50>>

\* a resolved run over 250 accounts, fetched in three pages
C5_Witness ==
    \E r \in Slots :
        /\ sync[r].pc = "resolved"
        /\ Len(accounts) = 250
        /\ Len(sync[r].pages) = 3
        /\ Len(sync[r].allUsers) = 250

\* the positions of allUsers whose processing did not throw, in order
Processed(s) ==
    SelectSeq([k \in DOMAIN s.allUsers |-> k], LAMBDA k : k \notin s.errors)

\* C6: the result of a resolved run holds, in the order of the account list,
\* one stored users document for every account whose processing did not
\* throw, with that account's accountId; it is the document built from the
\* account when the run created it; with no error every account fetched has
\* its profile in the result.
C6_ResultIsTheBatch ==
    \A r \in Slots :
        LET s == sync[r]
            ok == Processed(s)
        IN  s.pc = "resolved" =>
                /\ Len(s.savedAccounts) = Len(ok)
                /\ \A j \in DOMAIN ok :
                       /\ s.savedAccounts[j] \in Stored
                       /\ s.savedAccounts[j].collection = s.usersCollection
                       /\ s.savedAccounts[j].data.accountId =
                              s.allUsers[ok[j]].id
                       /\ ok[j] \in s.created =>
                              s.savedAccounts[j].data =
                                  userData(s.allUsers[ok[j]])
                /\ s.errors = {} =>
                       /\ Len(s.savedAccounts) = Len(s.allUsers)
                       /\ \A k \in DOMAIN s.allUsers :
                              ProfilesOf(s.allUsers[k].id) # {}

\* a resolved run without an error that found the profile of one account
\* and created the profile of another
C6_Witness ==
    \E r \in Slots :
        /\ sync[r].pc = "resolved"
        /\ sync[r].errors = {}
        /\ sync[r].created # {}
        /\ sync[r].created # DOMAIN sync[r].allUsers
        /\ Len(sync[r].savedAccounts) = Len(sync[r].allUsers)

Fatal == {"listCollections", "createCollection", "createAttribute",
          "createIndex"}

\* C7: a provisioning run in which a listCollections, createCollection,
\* createAttribute or createIndex call failed, in whichever phase, ends
\* rejected, and the collections of the steps completed before the failure
\* are still there.
C7_FatalFailureRejects ==
    prov.pc \in Ended =>
        /\ prov.failed \cap Fatal # {} => prov.pc = "rejected"
        /\ \A k \in 1 .. (prov.fn - 1) :
               CollectionsNamed(CollectionNames[k]) # {}

\* C8: while the database has no collection named "users", a sync run issues
\* no call but listCollections, ends rejected, stores nothing, and its
\* request is answered 500 with success false.
C8_SchemaNotReady ==
    find(collections, "users") = 0 =>
        /\ documents = <<>>
        /\ \A r \in Slots :
               /\ sync[r].calls \subseteq {"listCollections"}
               /\ sync[r].pc \in {"idle", "listCollections", "rejected",
                                  "done"}
               /\ sync[r].pc = "done" =>
                      /\ sync[r].response.status = 500
                      /\ sync[r].response.success = FALSE

\* a request answered 500 on a database without a users collection, with
\* accounts on the platform and no remote call rejected
C8_Witness ==
    /\ find(collections, "users") = 0
    /\ accounts # <<>>
    /\ faults = MaxFaults
    /\ \E r \in Slots :
           /\ sync[r].pc = "done"
           /\ sync[r].response.status = 500

\* C9: the stored documents only grow: no step changes or removes a stored
\* document; and a run is at createDocument only for an account that has no
\* stored profile, whatever the account's fields are now.
C9_ExistingProfileUntouched ==
    /\ [][/\ Len(documents') >= Len(documents)
          /\ SubSeq(documents', 1, Len(documents)) = documents]_vars
    /\ [](\A r \in Slots :
             sync[r].pc = "create" =>
                 ProfilesOf(sync[r].allUsers[sync[r].i].id) = {})

\* a resolved run that kept, without a createDocument, a profile whose fields
\* differ from what the account would give now
C9_Witness ==
    \E r \in Slots :
        /\ sync[r].pc = "resolved"
        /\ \E j \in DOMAIN Processed(sync[r]) :
               LET k == Processed(sync[r])[j]
               IN  /\ k \notin sync[r].created
                   /\ sync[r].savedAccounts[j].data #
                          userData(sync[r].allUsers[k])
                   /\ sync[r].savedAccounts[j] \in Stored

\* C10: in a run whose only failures are rejected createRelationship calls,
\* every link whose field is still absent from its owning collection when
\* the run ends has had its createRelationship call issued.
C10_OtherLinksStillAttempted ==
    (prov.pc = "resolved" /\ prov.failed = {"createRelationship"}) =>
        \A l \in Links : l.key \notin OwnerAttributes(l) => l \in prov.rels

\* ---------------------------------------------------------------- C11
\* the calls of createRelationships that come after its listCollections
RelationshipCalls == {"listAttributes", "createRelationship"}

\* the positions of a run inside one of the four collection steps
CollectionPhase ==
    {"list", "create", "attrs", "awaitAttrs", "delay", "indexes",
     "awaitIndexes"}

\* C11: a run takes the collection steps in the order users, posts, saves,
\* likes, one after the other: a step begins only when the step before it has
\* returned with none of its calls outstanding, so the collections of the
\* earlier steps exist while a step runs. listAttributes and
\* createRelationshipAttribute are called only after the fourth step has
\* returned, with the four collections there and no call of the collection
\* steps rejected; a run that a collection step rejected has made no
\* relationship call.
C11_StepsInOrder ==
    /\ [](/\ prov.pc \in CollectionPhase =>
                /\ prov.fn \in DOMAIN CollectionNames
                /\ \A k \in 1 .. prov.fn - 1 :
                       CollectionsNamed(CollectionNames[k]) # {}
                /\ prov.calls \cap RelationshipCalls = {}
          /\ prov.calls \cap RelationshipCalls # {} =>
                /\ \A n \in Names : CollectionsNamed(n) # {}
                /\ prov.failed \cap Fatal = {}
          /\ prov.pc = "rejected" =>
                /\ prov.calls \cap RelationshipCalls = {}
                /\ prov.rels = {})
    /\ [][(prov'.run = prov.run /\ prov'.fn # prov.fn) =>
              /\ Outstanding = {}
              /\ \/ prov'.fn = prov.fn + 1
                 \/ prov.fn = Len(CollectionNames) /\ prov'.fn = 0]_vars

\* a run rejected in its third step, after the first two steps made their
\* collections, that has made no relationship call
C11_Witness ==
    /\ prov.pc = "rejected"
    /\ prov.fn = 3
    /\ CollectionsNamed("users") # {}
    /\ CollectionsNamed("posts") # {}
    /\ prov.calls \cap RelationshipCalls = {}

\* ---------------------------------------------------------------- C12
\* the step of slot r answers its request
Answers(r) == sync[r].pc # "done" /\ sync'[r].pc = "done"

\* C12: GET /accounts/sync answers 200 with success true and the run's
\* profiles exactly when fetchAndSaveAccounts resolves, and 500 with success
\* false exactly when it rejects. The errors of single accounts are not in
\* the answer: a run with failed accounts still answers 200, data holds the
\* profiles of the accounts that were processed and nothing else, and the
\* count of the message is the length of data.
C12_ResponseFollowsRun ==
    /\ [](\A r \in Slots :
              sync[r].pc = "done" =>
                  \/ /\ sync[r].response.status = 200
                     /\ sync[r].response.success
                     /\ sync[r].response.count = Len(sync[r].response.data)
                  \/ /\ sync[r].response.status = 500
                     /\ ~sync[r].response.success)
    /\ [][\A r \in Slots :
              Answers(r) =>
                  /\ sync[r].pc \in {"resolved", "rejected"}
                  /\ sync'[r].response.status = 200 <=>
                         sync[r].pc = "resolved"
                  /\ sync'[r].response.status = 500 <=>
                         sync[r].pc = "rejected"
                  /\ sync[r].pc = "resolved" =>
                         /\ sync'[r].response.data = sync[r].savedAccounts
                         /\ Len(sync'[r].response.data)
                                = Len(sync[r].allUsers)
                                      - Cardinality(sync[r].errors)]_vars

\* a request answered 200 with the profile of the second account alone: the
\* run listed both accounts and the first one failed
C12_Witness ==
    \E r \in Slots :
        /\ sync[r].pc = "done"
        /\ sync[r].response.status = 200
        /\ sync[r].response.count = 1
        /\ Len(accounts) = 2
        /\ sync[r].response.data[1].data.accountId = accounts[2].id
        /\ ProfilesOf(accounts[1].id) = {}

\* ---------------------------------------------------------------- C13
\* no provisioning run has resolved so far and the run of this boot rejected
ProvisioningFailed ==
    /\ prov.pc = "rejected"
    /\ \A k \in DOMAIN history : history[k] = "rejected"

\* C13 as the specification states it: once the provisioning run of the boot
\* has failed, and as long as no run has succeeded, the server keeps serving
\* and answers every sync request with 500.
C13_DegradedUntilReprovisioned ==
    ProvisioningFailed =>
        /\ process.status = "listening"
        /\ \A r \in Slots :
               sync[r].pc = "done" => sync[r].response.status = 500

\* C13, amended: once the provisioning run of the boot has failed the server
\* keeps serving. A sync request fails with 500 as long as the database has
\* no users collection: the run goes no further than its listCollections.
\* Once the users collection exists a request can be answered 200, whether or
\* not a provisioning run has ever completed.
C13_FailsWhileNoUsersCollection ==
    /\ prov.pc = "rejected" => process.status = "listening"
    /\ \A r \in Slots :
           /\ (sync[r].pc = "done" /\ sync[r].response.status = 200) =>
                  CollectionsNamed("users") # {}
           /\ CollectionsNamed("users") = {} =>
                  /\ sync[r].pc \in {"idle", "listCollections", "rejected",
                                     "done"}
                  /\ sync[r].calls \subseteq {"listCollections"}
                  /\ sync[r].pc = "done" => sync[r].response.status = 500

\* the only provisioning run so far failed in a later step than users, and a
\* sync request made after it was answered 200
C13_Witness ==
    /\ ProvisioningFailed
    /\ CollectionsNamed("users") # {}
    /\ CollectionsNamed("likes") = {}
    /\ \E r \in Slots :
           sync[r].pc = "done" /\ sync[r].response.status = 200

\* ---------------------------------------------------------------- C14
\* C14: a process started with one of the four configuration values (the
\* database id, the endpoint, the project id, the secret key) absent exits
\* with a non-zero status: it never listens and it makes no remote call.
C14_FailsFastOnMissingConfig ==
    (process.status # "stopped" /\ process.env # Environment) =>
        /\ process.status = "exited"
        /\ process.exitCode # 0
        /\ prov.calls = {}
        /\ \A r \in Slots : sync[r].calls = {}

\* ---------------------------------------------------------------- C15
\* the positions of a name that the username keeps: every character that is
\* not whitespace, and the first character of every run of whitespace
Kept(str) ==
    {k \in DOMAIN str :
        str[k] \notin Whitespace \/ k = 1 \/ str[k - 1] \notin Whitespace}

\* the j-th kept position of a name
KeptAt(str, j) ==
    CHOOSE k \in Kept(str) : Cardinality({x \in Kept(str) : x <= k}) = j

\* the username stored for an account is the one derived from its name, or
\* from its id when it has no name
DerivedFrom(acc, username) ==
    IF acc.name # <<>>
    THEN /\ Len(username) = Cardinality(Kept(acc.name))
         /\ \A j \in DOMAIN username :
                LET c == acc.name[KeptAt(acc.name, j)]
                IN  /\ c \in Whitespace => username[j] = "_"
                    /\ c \notin Whitespace =>
                           /\ username[j] = toLowerCase(<<c>>)[1]
                           /\ \A u \in DOMAIN UpperCase :
                                  username[j] # UpperCase[u]
    ELSE /\ Len(username) = 5 + Min(8, Len(acc.id))
         /\ SubSeq(username, 1, 5) = <<"u", "s", "e", "r", "_">>
         /\ \A k \in 1 .. Len(username) - 5 : username[5 + k] = acc.id[k]

JaneDoe == <<"J", "a", "n", "e", " ", "D", "o", "e">>

\* the profiles stored for the account named "Jane Doe" have the username u
JaneDoeGives(u) ==
    \A d \in Stored :
        (\E k \in DOMAIN accounts :
             accounts[k].id = d.data.accountId /\ accounts[k].name = JaneDoe)
            => d.data.username = u

\* the profiles stored for the nameless account "abcdefgh1234" have the
\* username u
NamelessGives(u) ==
    \A d \in Stored :
        (\E k \in DOMAIN accounts :
             /\ accounts[k].id = d.data.accountId
             /\ accounts[k].name = <<>>
             /\ accounts[k].id = <<"a", "b", "c", "d", "e", "f", "g", "h",
                                   "1", "2", "3", "4">>)
            => d.data.username = u

\* C15 as the specification states it: "Jane Doe" gives "jane_doe", and the
\* nameless account with the identifier "abcdefgh1234" gives "user_abcdefg".
C15_UsernameExamples ==
    /\ JaneDoeGives(<<"j", "a", "n", "e", "_", "d", "o", "e">>)
    /\ NamelessGives(<<"u", "s", "e", "r", "_", "a", "b", "c", "d", "e", "f",
                       "g">>)

\* C15, amended: the username of a profile is the account's name in lower
\* case with every run of whitespace replaced by one underscore, so "Jane
\* Doe" gives "jane_doe"; for an account without a name it is "user_"
\* followed by the first 8 characters of the identifier, so "abcdefgh1234"
\* gives "user_abcdefgh".
C15_UsernameDerivation ==
    /\ \A d \in Stored :
           \A k \in DOMAIN accounts :
               accounts[k].id = d.data.accountId =>
                   DerivedFrom(accounts[k], d.data.username)
    /\ JaneDoeGives(<<"j", "a", "n", "e", "_", "d", "o", "e">>)
    /\ NamelessGives(<<"u", "s", "e", "r", "_", "a", "b", "c", "d", "e", "f",
                       "g", "h">>)

\* a profile stored for a name with a run of two whitespace characters
C15_Witness ==
    \E d \in Stored :
        \E k \in DOMAIN accounts :
            /\ accounts[k].id = d.data.accountId
            /\ accounts[k].name = <<"J", " ", "\t">>
            /\ d.data.username = <<"j", "_">>

\* ---------------------------------------------------------------- C16
\* the calls of a kind that the step issues
Issued(kind) == {c \in pending' \ pending : c.kind = kind}

\* C16: inside a collection step the attribute calls are issued only once
\* createCollection has been acknowledged, and the index calls only once
\* every attribute call has been acknowledged and the delay has passed. No
\* index is requested on, or exists on, a collection with an attribute call
\* outstanding or rejected.
C16_AttributesBeforeIndexes ==
    /\ [](/\ \A c \in pending :
                /\ c.coll \in DOMAIN collections
                /\ c.kind = "createIndex" =>
                       /\ Attributes(collections[c.coll].name)
                              \subseteq collections[c.coll].attributes
                       /\ \A d \in pending :
                              (d.coll = c.coll => d.kind = "createIndex")
          /\ \A k \in DOMAIN collections :
                (collections[k].indexes # {} =>
                    Attributes(collections[k].name)
                        \subseteq collections[k].attributes))
    /\ [][/\ Issued("createAttribute") # {} =>
                /\ prov.pc = "attrs"
                /\ "createCollection" \in prov.calls
                /\ prov.coll \in DOMAIN collections
          /\ Issued("createIndex") # {} =>
                /\ prov.pc = "indexes"
                /\ Outstanding = {}
                /\ "createAttribute" \notin prov.failed]_vars

\* the index calls of the users step are outstanding
C16_Witness ==
    /\ prov.pc = "awaitIndexes"
    /\ \E c \in pending :
           c.kind = "createIndex" /\ collections[c.coll].name = "users"

\* ---------------------------------------------------------------- C19
\* C19: a collection that an earlier, failed run created without all of its
\* attributes and indexes is completed by a later run: when a run has ended
\* without any error, every collection has its full set of attributes and
\* all of its indexes.
C19_LaterRunCompletesSchema ==
    (prov.pc = "resolved" /\ prov.failed = {} /\ pending = {}) =>
        \A k \in DOMAIN collections :
            /\ Attributes(collections[k].name)
                   \subseteq collections[k].attributes
            /\ Indexes(collections[k].name) \subseteq collections[k].indexes

\* ---------------------------------------------------------------- C17
\* both collections of a link exist
Linkable(l) ==
    CollectionsNamed(l.owner) # {} /\ CollectionsNamed(l.related) # {}

\* createRelationships has returned and the platform rejected none of its
\* calls
RanClean == prov.pc = "resolved" /\ prov.failed = {}

\* C17 as the specification states it: createRelationships skips only the
\* links of a missing collection. After a run that met no rejection every
\* link between two existing collections is there: with saves missing the
\* users/posts link and the links of likes, with posts missing the links
\* from saves and from likes to users.
C17_OnlyMissingPairsSkipped ==
    RanClean =>
        \A l \in Links : Linkable(l) => l.key \in OwnerAttributes(l)

\* C17, amended: with saves or likes missing, createRelationships skips the
\* links of the missing collection and handles the others; with users or
\* posts missing it skips every link: it calls nothing after listCollections
\* and leaves every collection as it was.
C17_SkipsAllWithoutUsersOrPosts ==
    RanClean =>
        IF CollectionsNamed("users") # {} /\ CollectionsNamed("posts") # {}
        THEN /\ \A l \in Links :
                    Linkable(l) => l.key \in OwnerAttributes(l)
             /\ \A l \in prov.rels : Linkable(l)
        ELSE /\ prov.calls = {"listCollections"}
             /\ prov.rels = {}
             /\ \A k \in DOMAIN collections :
                    collections[k].attributes
                        = Attributes(collections[k].name)

\* a run on a database without saves that made the users/posts link and both
\* links of likes
C17_Witness ==
    /\ RanClean
    /\ CollectionsNamed("saves") = {}
    /\ prov.rels = {usersPosts, userLink("likes"), postLink("likes")}
    /\ \A l \in prov.rels : l.key \in OwnerAttributes(l)

\* ---------------------------------------------------------------- C18
\* C18: two GET /accounts/sync requests that overlap, their handlers
\* interleaved at every await, still leave at most one profile for an
\* account: the two runs never both find no profile for an accountId and both
\* create one.
C18_OverlappingRequestsKeepOneProfile ==
    \A k \in DOMAIN accounts : Cardinality(ProfilesOf(accounts[k].id)) <= 1

\* ---------------------------------------------------------------- C20
\* the pairs of positions of a run's list that hold the same account
Repeats(s) ==
    {<<i, j>> \in (DOMAIN s.allUsers) \X (DOMAIN s.allUsers) :
        i < j /\ s.allUsers[i].id = s.allUsers[j].id}

\* C20: a run whose accumulated list holds an account twice, the listing
\* having shifted between two page fetches, creates at most one profile for
\* it: the lookup of the later occurrence finds the document created for the
\* earlier one. createDocument is called for a later occurrence only when no
\* profile of the account exists, every earlier occurrence having failed, and
\* when the run returns no account of its list has a second profile.
C20_RepeatedAccountInOneRun ==
    /\ [](\A r \in Slots :
              sync[r].pc = "resolved" =>
                  \A p \in Repeats(sync[r]) :
                      /\ p[2] \in sync[r].created => p[1] \in sync[r].errors
                      /\ Cardinality(ProfilesOf(sync[r].allUsers[p[1]].id))
                             <= 1)
    /\ [][\A r \in Slots :
              \A j \in IssuesCreate(r) :
                  /\ ProfilesOf(sync[r].allUsers[j].id) = {}
                  /\ \A i \in 1 .. j - 1 :
                         sync[r].allUsers[i].id = sync[r].allUsers[j].id =>
                             i \in sync[r].errors]_vars

\* a run that has gone through a list with an account in it twice: it
\* created the profile at the first occurrence and found it at the second
C20_Witness ==
    \E r \in Slots :
        /\ sync[r].pc = "resolved"
        /\ \E p \in Repeats(sync[r]) :
               /\ p[1] \in sync[r].created \ sync[r].errors
               /\ p[2] \notin sync[r].created \cup sync[r].errors
               /\ Cardinality(ProfilesOf(sync[r].allUsers[p[1]].id)) = 1

====
